---- MODULE Spec2Model ----
(***************************************************************************)
(* Order workflow of the tutoring-booking backend: orderService.createOrder *)
(* and orderService.updateOrderStatus (services/orderService.js),           *)
(* TutorService.completeCourse (services/tutorService.js) and the mongoose  *)
(* collections they read and write.                                         *)
(*                                                                          *)
(* Every `await` of a handler is a suspension point of the Node.js event    *)
(* loop, so a handler is a chain of steps, one per store operation, and the *)
(* steps of different requests interleave.  A request slot (Procs) holds    *)
(* the handler's arguments, its position (pc) and its local variables.      *)
(***************************************************************************)
EXTENDS Integers, Sequences, FiniteSets, TLC

\* ---------------------------------------------------------------- bounds
MaxOrders == 2      \* Order documents the model lets createOrder persist
MaxCalls == 3       \* requests started in one behaviour

\* ------------------------------------------------------- inputs and seeds
Procs == {"r1", "r2"}                 \* request slots of the event loop
NoId == "none"                        \* an absent (falsy) id argument
NoOrder == 0                          \* an absent (falsy) order id argument

\* A JavaScript Number that holds an amount of money is modelled as an
\* integer count of 1/Unit (five decimals); arithmetic on it is exact.
Unit == 100000

\* Course documents of the seed store; "cX" is a well-formed id of no course.
\* createCourse accepts any price that is a number >= 0: c1 costs 3,
\* c2 costs 7 and c3 costs 10.555.
SeedCourses ==
    [c \in {"c1", "c2", "c3"} |->
        CASE c = "c1" -> [price |-> 3 * Unit, isActive |-> TRUE,  createdBy |-> "a2"]
          [] c = "c2" -> [price |-> 7 * Unit, isActive |-> FALSE, createdBy |-> "a2"]
          [] c = "c3" -> [price |-> 1055500,  isActive |-> TRUE,  createdBy |-> "a2"]]

\* Ids of the accounts of the seed store (the accounts that hold a token);
\* "aX" is a well-formed id of no account.
SeedAccounts == {"a1", "a2"}

\* Account documents of the seed store: a1 is a User, a2 a Tutor.
SeedAccountDocs ==
    [a \in SeedAccounts |->
        IF a = "a1"
        THEN [fullName |-> "n1", email |-> "e1", phone |-> "p1",
              role |-> "User", status |-> "Active"]
        ELSE [fullName |-> "n2", email |-> "e2", phone |-> "p2",
              role |-> "Tutor", status |-> "Active"]]

\* Instants are whole hours since the first hour of January of BaseYear,
\* UTC, in a calendar whose months all have TicksPerMonth hours.
BaseYear == 2024
TicksPerMonth == 720
TicksPerYear == 12 * TicksPerMonth
\* the clock when the first request arrives: the last hour of BaseYear
StartTick == TicksPerYear - 1

CourseIdInputs == {"c1", "c2", "c3", "cX", NoId}
\* the course ids and the clock steps the interleaved specifications explore
InterleavedCourseIds == CourseIdInputs \ {"c3"}
InterleavedClockSteps == {1}
\* the course ids and the caller of the requests whose termination is explored
LiveCourseIds == {"c1", "cX"}
LiveAccountIds == {"a1"}
\* the instants the clock may have advanced between two saves
ClockSteps == {0, 1}
AccountIdInputs == {"a1", "a2", "aX", NoId}
OrderIdInputs == (1..MaxOrders) \cup {NoOrder}

VARIABLES
    courses,         \* Course collection:   id -> [price, isActive, createdBy]
    accounts,        \* Account collection:  id -> [fullName, email, phone, role, status]
    paymentMethods,  \* PaymentMethod collection: sequence of [name]; _id = index
    orders,          \* Order collection: sequence of records; _id = index
    orderDetails,    \* OrderDetail collection: sequence of records; _id = index
    req,             \* request slots: arguments, pc, locals, result
    calls,           \* number of requests started
    payLog,          \* per order: the owner's finished updateOrderStatus calls
    areq,            \* request slots of the account handlers
    out,             \* the last read operation: [op, in, res]
    certifications,  \* Certification collection: sequence of records; _id = index
    otps,            \* per account: the otp and otpExpiration of its document
    clock            \* the wall clock, in periods of five minutes

vars == <<courses, accounts, paymentMethods, orders, orderDetails, req, calls,
          payLog, areq, out, certifications, otps, clock>>
\* the Certification collection, the one-time passwords and the wall clock
auth == <<certifications, otps, clock>>
store == <<courses, accounts, paymentMethods, orders, orderDetails>>

\* ------------------------------------------------------------ request slot
Idle ==
    [op |-> "none", pc |-> "idle",
     courseId |-> NoId, accountId |-> NoId, orderId |-> NoOrder,
     price |-> 0, pm |-> 0, order |-> 0, totalAmount |-> 0,
     pre |-> "None", wrote |-> 0,
     result |-> "none", dataOrderId |-> 0, vnp_Amount |-> 0, vnp_TxnRef |-> 0,
     found |-> <<>>, pending |-> {}]

\* a free slot of the account handlers
IdleAccountRequest ==
    [op |-> "none", pc |-> "idle", userId |-> NoId, fullName |-> NoId,
     email |-> NoId, phone |-> NoId, account |-> NoId, check |-> 0,
     rejected |-> FALSE, result |-> 0, otp |-> NoId, certificationId |-> 0,
     checkedAt |-> 0]

\* slots whose handler has started and not yet returned or thrown
InFlight == {p \in Procs : req[p].pc \notin {"idle", "done"}}

\* The response of a finished handler is sent before the event loop runs
\* its next step: the slots that hold a result are free again.
Settle(r) == [p \in Procs |-> IF r[p].pc = "done" THEN Idle ELSE r[p]]

\* A new request takes the first free slot.
CanStart(p, limit) ==
    /\ req[p].pc \in {"idle", "done"}
    /\ p = "r2" => req["r1"].pc \notin {"idle", "done"}
    /\ Cardinality(InFlight) < limit
    /\ calls < MaxCalls

\* createOrder calls in flight that have not persisted their Order yet
OrdersToCome ==
    Cardinality({p \in Procs : /\ req[p].op = "createOrder"
                               /\ req[p].pc \notin {"idle", "done", "saveOrderDetail"}})

Finish(p, r, res) == [r EXCEPT !.pc = "done", !.result = res]

\* ------------------------------------------------------------ store queries
\* db.PaymentMethod.findOne({name}): the first matching document, 0 if none
FindPaymentMethod(name) ==
    LET hits == {i \in DOMAIN paymentMethods : paymentMethods[i].name = name}
    IN IF hits = {} THEN 0 ELSE CHOOSE i \in hits : \A j \in hits : i <= j

\* FindOwnedOrder with the ownership filter dropped: findOne({_id: orderId})
FindOwnedOrder_ById(orderId, accountId) ==
    IF orderId \in DOMAIN orders THEN orderId ELSE 0

\* db.Order.findOne({_id: orderId, account: accountId}): the id, 0 if none
FindOwnedOrder(orderId, accountId) ==
    IF orderId \in DOMAIN orders /\ orders[orderId].account = accountId
    THEN orderId ELSE 0

\* status of the stored order, "None" when the id names no document
StatusOf(orderId) ==
    IF orderId \in DOMAIN orders THEN orders[orderId].status ELSE "None"

\* ------------------------------------------------------------- createOrder
\* if (!courseId || !accountId)
MissingIds(courseId, accountId) == courseId = NoId \/ accountId = NoId

\* CourseUnavailable with the isActive test dropped: if (!course)
CourseUnavailable_MissingOnly(courseId) == courseId \notin DOMAIN courses

\* if (!course || !course.isActive)
CourseUnavailable(courseId) ==
    \/ courseId \notin DOMAIN courses
    \/ ~courses[courseId].isActive

\* AccountMissing with the account lookup's result never tested
AccountMissing_Unchecked(accountId) == FALSE

\* if (!account)
AccountMissing(accountId) == accountId \notin DOMAIN accounts

\* const quantity = 1
Quantity == 1

\* TotalAmount with the product mistyped as a sum
TotalAmount_Sum(price, quantity) == price + quantity

\* const totalAmount = course.price * quantity
TotalAmount(price, quantity) == price * quantity

\* vnp_Amount: totalAmount * 100
VnpAmount(totalAmount) == totalAmount * 100

\* Entry of the handler: the synchronous input validation, up to the first await.
StartCreateOrder(p, limit, courseIds) ==
    /\ CanStart(p, limit)
    /\ Len(orders) + OrdersToCome < MaxOrders
    /\ \E courseId \in courseIds, accountId \in AccountIdInputs :
          LET r == [Idle EXCEPT !.op = "createOrder",
                                !.courseId = courseId, !.accountId = accountId]
          IN req' = [Settle(req) EXCEPT ![p] =
                        IF MissingIds(courseId, accountId)
                        THEN Finish(p, r, "BadRequest")
                        ELSE [r EXCEPT !.pc = "findCourse"]]
    /\ calls' = calls + 1
    /\ UNCHANGED <<store, payLog, areq, out, auth>>

\* const course = await db.Course.findById(courseId)
CreateFindCourse(p) ==
    /\ req[p].pc = "findCourse"
    /\ req' = [Settle(req) EXCEPT ![p] =
                  IF CourseUnavailable(req[p].courseId)
                  THEN Finish(p, req[p], "NotFound")
                  ELSE [req[p] EXCEPT !.pc = "findAccount",
                                      !.price = courses[req[p].courseId].price]]
    /\ UNCHANGED <<store, calls, payLog, areq, out, auth>>

\* const account = await db.Account.findById(accountId)
CreateFindAccount(p) ==
    /\ req[p].pc = "findAccount"
    /\ req' = [Settle(req) EXCEPT ![p] =
                  IF AccountMissing(req[p].accountId)
                  THEN Finish(p, req[p], "NotFound")
                  ELSE [req[p] EXCEPT !.pc = "findPaymentMethod"]]
    /\ UNCHANGED <<store, calls, payLog, areq, out, auth>>

\* let paymentMethod = await db.PaymentMethod.findOne({ name: "VNPay" })
CreateFindPaymentMethod(p) ==
    /\ req[p].pc = "findPaymentMethod"
    /\ LET found == FindPaymentMethod("VNPay")
       IN req' = [Settle(req) EXCEPT ![p] =
                     IF found = 0
                     THEN [req[p] EXCEPT !.pc = "savePaymentMethod"]
                     ELSE [req[p] EXCEPT !.pc = "saveOrder", !.pm = found]]
    /\ UNCHANGED <<store, calls, payLog, areq, out, auth>>

\* paymentMethod = new db.PaymentMethod({ name: "VNPay" }); await paymentMethod.save()
CreateSavePaymentMethod(p) ==
    /\ req[p].pc = "savePaymentMethod"
    /\ paymentMethods' = Append(paymentMethods, [name |-> "VNPay"])
    /\ req' = [Settle(req) EXCEPT ![p] =
                  [req[p] EXCEPT !.pc = "saveOrder",
                                 !.pm = Len(paymentMethods) + 1,
                                 !.wrote = @ + 1]]
    /\ UNCHANGED <<courses, accounts, orders, orderDetails, calls, payLog, areq, out, auth>>

\* the createdAt of the newest Order, the starting clock if there is none
LastCreatedAt ==
    IF orders = <<>> THEN StartTick ELSE orders[Len(orders)].createdAt

\* const order = new db.Order({...status: "Pending"}); await order.save()
\* {timestamps: true} stamps createdAt with the clock at the save, which is
\* the instant of the previous save or a later one.
CreateSaveOrder(p, clockSteps) ==
    /\ req[p].pc = "saveOrder"
    /\ \E step \in clockSteps :
       LET now == LastCreatedAt + step IN
       LET total == TotalAmount(req[p].price, Quantity)
       IN /\ orders' = Append(orders,
                  [account |-> req[p].accountId, paymentMethod |-> req[p].pm,
                   totalAmount |-> total, status |-> "Pending",
                   createdAt |-> now])
          /\ req' = [Settle(req) EXCEPT ![p] =
                        [req[p] EXCEPT !.pc = "saveOrderDetail",
                                       !.order = Len(orders) + 1,
                                       !.totalAmount = total,
                                       !.wrote = @ + 1]]
    /\ UNCHANGED <<courses, accounts, paymentMethods, orderDetails, calls, payLog, areq, out, auth>>

\* an OrderDetail that refers to the newest Order of the store
NewOrderDetail_NewestOrder(r) ==
    [order |-> Len(orders), course |-> r.courseId,
     quantity |-> Quantity, price |-> r.price, isFinishCourse |-> FALSE]

\* new db.OrderDetail({order: order._id, course: courseId, quantity, price:
\* course.price}); isFinishCourse defaults to false
NewOrderDetail(r) ==
    [order |-> r.order, course |-> r.courseId,
     quantity |-> Quantity, price |-> r.price, isFinishCourse |-> FALSE]

\* const orderDetail = new db.OrderDetail({...}); await orderDetail.save();
\* then the synchronous construction of the payment URL and the return.
CreateSaveOrderDetail(p) ==
    /\ req[p].pc = "saveOrderDetail"
    /\ orderDetails' = Append(orderDetails, NewOrderDetail(req[p]))
    /\ req' = [Settle(req) EXCEPT ![p] =
                  [Finish(p, req[p], "OK") EXCEPT
                       !.wrote = @ + 1,
                       !.dataOrderId = req[p].order,
                       !.vnp_Amount = VnpAmount(req[p].totalAmount),
                       !.vnp_TxnRef = req[p].order]]
    /\ UNCHANGED <<courses, accounts, paymentMethods, orders, calls, payLog, areq, out, auth>>

\* ------------------------------------------------------- updateOrderStatus
\* AlreadyPaid with the status test dropped
AlreadyPaid_Never(status) == FALSE

\* AlreadyPaid testing for the wrong status
AlreadyPaid_Cancelled(status) == status = "Cancelled"

\* if (order.status === "Completed")
AlreadyPaid(status) == status = "Completed"

\* order.status = "Completed"
PaidStatus == "Completed"

\* The owner's finished call on an order that existed when the call started
\* is recorded with the stored status at its start and at its end.
Logged(r, res, post) ==
    IF r.pre # "None" /\ r.orderId \in DOMAIN orders
       /\ orders[r.orderId].account = r.accountId
    THEN [payLog EXCEPT ![r.orderId] =
             Append(@, [pre |-> r.pre, res |-> res, post |-> post])]
    ELSE payLog

\* Entry of the handler; accountId is the verified token's account.
StartUpdateOrderStatus(p, limit) ==
    /\ CanStart(p, limit)
    /\ \E orderId \in OrderIdInputs, accountId \in SeedAccounts :
          LET r == [Idle EXCEPT !.op = "updateOrderStatus",
                                !.orderId = orderId, !.accountId = accountId,
                                !.pre = StatusOf(orderId)]
          IN req' = [Settle(req) EXCEPT ![p] =
                        IF orderId = NoOrder
                        THEN Finish(p, r, "BadRequest")
                        ELSE [r EXCEPT !.pc = "findOrder"]]
    /\ calls' = calls + 1
    /\ UNCHANGED <<store, payLog, areq, out, auth>>

\* const order = await db.Order.findOne({ _id: orderId, account: accountId })
\* followed by the two synchronous checks and order.status = "Completed"
UpdateFindOrder(p) ==
    /\ req[p].pc = "findOrder"
    /\ LET found == FindOwnedOrder(req[p].orderId, req[p].accountId)
       IN IF found = 0
          THEN /\ req' = [Settle(req) EXCEPT ![p] = Finish(p, req[p], "NotFound")]
               /\ payLog' = Logged(req[p], "NotFound", StatusOf(req[p].orderId))
          ELSE IF AlreadyPaid(orders[found].status)
          THEN /\ req' = [Settle(req) EXCEPT ![p] = Finish(p, req[p], "BadRequest")]
               /\ payLog' = Logged(req[p], "BadRequest", orders[found].status)
          ELSE /\ req' = [Settle(req) EXCEPT ![p] =
                             [req[p] EXCEPT !.pc = "saveStatus", !.order = found]]
               /\ UNCHANGED payLog
    /\ UNCHANGED <<store, calls, areq, out, auth>>

\* a save that also recomputes the amount of the order
SavedOrder_Recomputed(doc) == [doc EXCEPT !.status = PaidStatus, !.totalAmount = 0]

\* order.status = "Completed"; order.save(): the stored document after the
\* save, which sets the one modified path
SavedOrder(doc) == [doc EXCEPT !.status = PaidStatus]

\* await order.save(): writes the modified path, {$set: {status: "Completed"}}
UpdateSaveStatus(p) ==
    /\ req[p].pc = "saveStatus"
    /\ orders' = [orders EXCEPT ![req[p].order] = SavedOrder(@)]
    /\ req' = [Settle(req) EXCEPT ![p] =
                  [Finish(p, req[p], "OK") EXCEPT !.wrote = @ + 1,
                                                  !.dataOrderId = req[p].orderId]]
    /\ payLog' = Logged(req[p], "OK", PaidStatus)
    /\ UNCHANGED <<courses, accounts, paymentMethods, orderDetails, calls, areq, out, auth>>

\* ---------------------------------------------------------- completeCourse
\* TutorService.completeCourse(orderDetailId, tutorId, imageFile).  Its two
\* reads are of documents no operation changes in the fields it reads
\* (OrderDetail.course, Course.createdBy), so the handler is one step; the
\* calls that throw ("OrderDetail not found", "Unauthorized") change nothing.
CompleteCourse(d, tutorId) ==
    /\ d \in DOMAIN orderDetails
    /\ orderDetails[d].course \in DOMAIN courses
    /\ courses[orderDetails[d].course].createdBy = tutorId
    /\ orderDetails' = [orderDetails EXCEPT ![d].isFinishCourse = TRUE]
    /\ req' = Settle(req)
    /\ UNCHANGED <<courses, accounts, paymentMethods, orders, calls, payLog, areq, out, auth>>

\* ------------------------------------------------------------- environment
\* The order state machine's external transition Pending -> Cancelled.
ExternalCancel(o) ==
    /\ o \in DOMAIN orders
    /\ orders[o].status = "Pending"
    /\ orders' = [orders EXCEPT ![o].status = "Cancelled"]
    /\ req' = Settle(req)
    /\ UNCHANGED <<courses, accounts, paymentMethods, orderDetails, calls, payLog, areq, out, auth>>

\* a catch block that answers with the success result instead of rethrowing
Caught_Swallowed(r) == "OK"

\* catch (error) { console.error(...); throw error; }: the call ends with the
\* error of the rejected operation
Caught(r) == "Internal"

\* The store operation a handler is suspended on rejects: the handler's
\* catch block logs and rethrows, and the route answers with the error.
StoreFails(p) ==
    /\ req[p].pc \notin {"idle", "done"}
    /\ req' = [Settle(req) EXCEPT ![p] = Finish(p, req[p], Caught(req[p]))]
    /\ payLog' = IF req[p].op = "updateOrderStatus"
                 THEN Logged(req[p], Caught(req[p]), StatusOf(req[p].orderId))
                 ELSE payLog
    /\ UNCHANGED <<store, calls, areq, out, auth>>

\* no read operation has run
NoOut == [op |-> "none", in |-> <<>>, res |-> <<>>]

\* --------------------------------------------------------- payment URL
\* The UTF-16 code units of a gateway parameter's key after the prefix
\* "vnp_", which all keys share: Array.prototype.sort() orders by them.
KeyChars(key) ==
    CASE key = "vnp_Version"    -> <<86, 101, 114, 115, 105, 111, 110>>
      [] key = "vnp_Command"    -> <<67, 111, 109, 109, 97, 110, 100>>
      [] key = "vnp_TmnCode"    -> <<84, 109, 110, 67, 111, 100, 101>>
      [] key = "vnp_Amount"     -> <<65, 109, 111, 117, 110, 116>>
      [] key = "vnp_CurrCode"   -> <<67, 117, 114, 114, 67, 111, 100, 101>>
      [] key = "vnp_TxnRef"     -> <<84, 120, 110, 82, 101, 102>>
      [] key = "vnp_OrderInfo"  -> <<79, 114, 100, 101, 114, 73, 110, 102, 111>>
      [] key = "vnp_OrderType"  -> <<79, 114, 100, 101, 114, 84, 121, 112, 101>>
      [] key = "vnp_Locale"     -> <<76, 111, 99, 97, 108, 101>>
      [] key = "vnp_ReturnUrl"  -> <<82, 101, 116, 117, 114, 110, 85, 114, 108>>
      [] key = "vnp_IpAddr"     -> <<73, 112, 65, 100, 100, 114>>
      [] key = "vnp_CreateDate" -> <<67, 114, 101, 97, 116, 101, 68, 97, 116, 101>>
      [] key = "vnp_SecureHash" -> <<83, 101, 99, 117, 114, 101, 72, 97, 115, 104>>

\* a < b in the order of the default sort: by code units, a prefix first
RECURSIVE CodeUnitsLess(_, _)
CodeUnitsLess(a, b) ==
    IF b = <<>> THEN FALSE
    ELSE IF a = <<>> THEN TRUE
    ELSE IF Head(a) # Head(b) THEN Head(a) < Head(b)
    ELSE CodeUnitsLess(Tail(a), Tail(b))

KeyLess(k1, k2) == CodeUnitsLess(KeyChars(k1), KeyChars(k2))

\* dateFormat(new Date(), "yyyymmddHHMMss"): the formatted instant
DateFormat(now) == <<"yyyymmddHHMMss", now>>

\* const paymentParams = {...}: the parameters in the order of the literal
PaymentParams(orderId, totalAmount, courseName, ip, now) ==
    << <<"vnp_Version", "2.1.0">>,
       <<"vnp_Command", "pay">>,
       <<"vnp_TmnCode", "9TKDVWYK">>,
       <<"vnp_Amount", VnpAmount(totalAmount)>>,
       <<"vnp_CurrCode", "VND">>,
       <<"vnp_TxnRef", orderId>>,
       <<"vnp_OrderInfo", <<"Payment for course: ", courseName>> >>,
       <<"vnp_OrderType", "250000">>,
       <<"vnp_Locale", "vn">>,
       <<"vnp_ReturnUrl", <<"http://localhost:3000?orderId=", orderId>> >>,
       <<"vnp_IpAddr", IF ip = NoId THEN "127.0.0.1" ELSE ip>>,
       <<"vnp_CreateDate", DateFormat(now)>> >>

\* keys with the sort left out: Object.keys(paymentParams)
SortedKeys_Unsorted(keys) == keys

\* Object.keys(paymentParams).sort()
RECURSIVE SortedKeys(_)
SortedKeys(keys) ==
    IF keys = <<>> THEN <<>>
    ELSE LET rest == SortedKeys(Tail(keys))
             k == Head(keys)
             before == SelectSeq(rest, LAMBDA x : KeyLess(x, k))
             after == SelectSeq(rest, LAMBDA x : ~KeyLess(x, k))
         IN before \o <<k>> \o after

\* paymentParams[key]
ParamValue(params, key) ==
    LET i == CHOOSE j \in DOMAIN params : params[j][1] = key IN params[i][2]

\* application/x-www-form-urlencoded serialisation of one value
UrlEncode(value) == <<"urlencoded", value>>

\* new URLSearchParams(sortedParams).toString(): key=value pairs joined by &
QueryString(params) ==
    LET keys == SortedKeys([i \in DOMAIN params |-> params[i][1]])
    IN [i \in DOMAIN keys |-> <<keys[i], UrlEncode(ParamValue(params, keys[i]))>>]

\* crypto.createHmac("sha512", secret).update(message).digest("hex")
HmacSha512Hex(secret, message) == <<"hmac-sha512-hex", secret, message>>

vnp_HashSecret == "LH6SD44ECTBWU1PHK3D2YCOI5HLUWGPH"

\* `${base}?${queryString}&vnp_SecureHash=${secureHash}`
PaymentUrl(orderId, totalAmount, courseName, ip, now) ==
    LET queryString ==
            QueryString(PaymentParams(orderId, totalAmount, courseName, ip, now))
        secureHash == HmacSha512Hex(vnp_HashSecret, queryString)
    IN [base |-> "https://sandbox.vnpayment.vn/paymentv2/vpcpay.html",
        query |-> Append(queryString, <<"vnp_SecureHash", secureHash>>)]

\* the inputs of the construction of the payment URL
UrlInputs ==
    [orderId : 1..MaxOrders,
     totalAmount : {0, 3 * Unit, 1055500},
     courseName : {"Intro to Go", "Giai tich 1"},
     ip : {NoId, "10.0.0.7"},
     now : StartTick .. (StartTick + 2)]

\* createOrder from `const vnp_TmnCode` to vnpayUrl (synchronous, no store access)
BuildPaymentUrl ==
    /\ out.op = "paymentUrl" /\ out.res = <<>>
    /\ out' = [out EXCEPT !.res =
                  PaymentUrl(out.in.orderId, out.in.totalAmount,
                             out.in.courseName, out.in.ip, out.in.now)]
    /\ UNCHANGED <<store, req, calls, payLog, areq, auth>>

\* ------------------------------------------------------------- dashboard
\* The hours by which the server's local time is ahead of UTC: a server on
\* UTC and one on Asia/Ho_Chi_Minh.
UtcOffsets == {0, 7}

\* the instant of January 1st, 00:00 UTC, of a year
YearStart(year) == (year - BaseYear) * TicksPerYear

\* new Date(year, 0, 1): midnight of January 1st in the server's local time
LocalNewYear(year, offset) == YearStart(year) - offset

\* {$month: "$createdAt"}: the month, 1..12, of the instant in UTC
UtcMonth(t) == (t % TicksPerYear) \div TicksPerMonth + 1

\* the year of the instant in UTC
UtcYear(t) == BaseYear + t \div TicksPerYear

\* a $match that selects the orders still Pending
MatchCompleted_Pending(startDate, endDate) ==
    {o \in DOMAIN orders :
        /\ orders[o].createdAt >= startDate /\ orders[o].createdAt < endDate
        /\ orders[o].status = "Pending"}

\* $match {createdAt: {$gte: startDate, $lt: endDate}, status: "Completed"}
MatchCompleted(startDate, endDate) ==
    {o \in DOMAIN orders :
        /\ orders[o].createdAt >= startDate /\ orders[o].createdAt < endDate
        /\ orders[o].status = "Completed"}

\* {$sum: <amount>} over a group of orders
RECURSIVE SumOver(_, _)
SumOver(group, amount) ==
    IF group = {} THEN 0
    ELSE LET o == CHOOSE x \in group : TRUE
         IN amount[o] + SumOver(group \ {o}, amount)

\* $group {_id: {$month: "$createdAt"}}: the months that have a matched order
GroupMonths(matched) == {UtcMonth(orders[o].createdAt) : o \in matched}

MonthGroup(matched, month) ==
    {o \in matched : UtcMonth(orders[o].createdAt) = month}

\* x * 0.15, in exact decimals
Commission(x) == (x * 15) \div 100

\* Number.prototype.toFixed(2): the digits of the nearest amount with two
\* decimals (the larger one on a tie), as a count of hundredths
ToFixed2(x) == (x + Unit \div 200) \div (Unit \div 100)

\* parseFloat of a string with two decimals
ParseFloat2(hundredths) == hundredths * (Unit \div 100)

\* StatsService.getMonthlyRevenue(year) on a server with the given UTC offset
getMonthlyRevenue(year, offset) ==
    LET matched == MatchCompleted(LocalNewYear(year, offset),
                                  LocalNewYear(year + 1, offset))
        totalRevenue(m) == SumOver(MonthGroup(matched, m),
                                   [o \in DOMAIN orders |-> orders[o].totalAmount])
    IN [i \in 1..12 |->
           [month |-> i,
            revenue |-> IF i \in GroupMonths(matched)
                        THEN ParseFloat2(ToFixed2(Commission(totalRevenue(i))))
                        ELSE 0]]

\* getRevenueByYear(year) on a server with the given UTC offset
getRevenueByYear(year, offset) ==
    LET matched == MatchCompleted(LocalNewYear(year, offset),
                                  LocalNewYear(year + 1, offset))
        totalRevenue(m) == SumOver(MonthGroup(matched, m),
                                   [o \in DOMAIN orders |-> Commission(orders[o].totalAmount)])
    IN [i \in 1..12 |->
           [month |-> i,
            revenue |-> IF i \in GroupMonths(matched)
                        THEN totalRevenue(i) ELSE 0]]

\* the years the dashboard is asked about
YearInputs == {BaseYear, BaseYear + 1}

\* the instants at which the stored orders were created
CreatedAtInputs ==
    {0, TicksPerMonth, TicksPerYear - 1, TicksPerYear, TicksPerYear + TicksPerMonth}

\* Orders in the order of their creation: createdAt never decreases
OrderStores(docs, size) ==
    {s \in UNION {[1..n -> docs] : n \in 0..size} :
        \A i, j \in DOMAIN s : i < j => s[i].createdAt <= s[j].createdAt}

\* the course an order of this amount was placed for (quantity is 1)
CourseOfAmount(totalAmount) ==
    CHOOSE c \in DOMAIN SeedCourses : SeedCourses[c].price = totalAmount

\* GET /dashboard/revenue/:year -> StatsService.getMonthlyRevenue(year)
GetMonthlyRevenue ==
    /\ out.op = "revenue" /\ "getMonthlyRevenue" \notin DOMAIN out.res
    /\ out' = [out EXCEPT !.res =
                  ("getMonthlyRevenue" :> getMonthlyRevenue(out.in.year, out.in.offset)) @@ @]
    /\ UNCHANGED <<store, req, calls, payLog, areq, auth>>

\* GET /dashboard/revenue/:year -> dashboardService.getRevenueByYear(year)
GetRevenueByYear ==
    /\ out.op = "revenue" /\ "getRevenueByYear" \notin DOMAIN out.res
    /\ out' = [out EXCEPT !.res =
                  ("getRevenueByYear" :> getRevenueByYear(out.in.year, out.in.offset)) @@ @]
    /\ UNCHANGED <<store, req, calls, payLog, areq, auth>>

\* ------------------------------------------------- dashboard: statistics
\* $group {_id: "$status", count: {$sum: 1}}: the statuses that have a group
StatusGroups == {accounts[a].status : a \in DOMAIN accounts}

\* StatsService.getAccountStatusStats(): result starts as {Active: 0,
\* Inactive: 0} and each group sets result[stat._id]
getAccountStatusStats ==
    [k \in {"Active", "Inactive"} \cup StatusGroups |->
        Cardinality({a \in DOMAIN accounts : accounts[a].status = k})]

\* String.prototype.toLowerCase on the role and status names
ToLowerCase(str) ==
    CASE str = "Tutor" -> "tutor"
      [] str = "User" -> "user"
      [] str = "Admin" -> "admin"
      [] str = "Active" -> "active"
      [] str = "Inactive" -> "inactive"

\* $match {role: {$in: ["Tutor", "User"]}}, $group by {role, status}
RoleStatusGroups ==
    {[role |-> accounts[a].role, status |-> accounts[a].status] :
        a \in {x \in DOMAIN accounts : accounts[x].role \in {"Tutor", "User"}}}

\* the keys of the result object getAccountStats starts from
AccountStatsKeys == {"tutors", "users"}

\* getAccountStats(): result[role][status] = stat.count for every group, where
\* role and status are the lower-cased names; result[role] is undefined for a
\* key the result object does not have, and assigning to a property of
\* undefined throws a TypeError, which the route answers with 500.
getAccountStats ==
    IF \E g \in RoleStatusGroups : ToLowerCase(g.role) \notin AccountStatsKeys
    THEN [status |-> 500, body |-> "TypeError"]
    ELSE [status |-> 200,
          body |-> [r \in AccountStatsKeys |->
                      [st \in {"active", "inactive"} |->
                          Cardinality({a \in DOMAIN accounts :
                              /\ accounts[a].role \in {"Tutor", "User"}
                              /\ ToLowerCase(accounts[a].role) = r
                              /\ ToLowerCase(accounts[a].status) = st})]]]

\* $match {isFinishCourse: true} left out
FinishedDetails_All == DOMAIN orderDetails

\* $match {isFinishCourse: true}
FinishedDetails == {d \in DOMAIN orderDetails : orderDetails[d].isFinishCourse}

\* $limit 1 without the $sort: any group
TopGroups_Unsorted(count) == DOMAIN count

\* $sort {completedCourses: -1}, $limit 1: a group with the largest count
\* (any of them on a tie), none if there is no group
TopGroups(count) ==
    {g \in DOMAIN count : \A h \in DOMAIN count : count[h] <= count[g]}

\* getTopAccountByCompletedCourses(): the array the aggregation yields, which
\* is empty where the function returns null
TopAccountResults ==
    LET joined == {d \in FinishedDetails : orderDetails[d].order \in DOMAIN orders}
        ids == {orders[orderDetails[d].order].account : d \in joined}
        count == [a \in ids |->
                    Cardinality({d \in joined : orders[orderDetails[d].order].account = a})]
    IN IF ids = {} THEN {<<>>}
       ELSE {IF a \in DOMAIN accounts
             THEN <<[accountId |-> a, fullName |-> accounts[a].fullName,
                     email |-> accounts[a].email, completedCourses |-> count[a]]>>
             ELSE <<>> : a \in TopGroups(count)}

\* getTopTutor(): likewise, for the creators of the finished courses
TopTutorResults ==
    LET joined == {d \in FinishedDetails :
                      /\ orderDetails[d].course \in DOMAIN courses
                      /\ courses[orderDetails[d].course].createdBy \in DOMAIN accounts
                      /\ accounts[courses[orderDetails[d].course].createdBy].role = "Tutor"}
        ids == {courses[orderDetails[d].course].createdBy : d \in joined}
        count == [a \in ids |->
                    Cardinality({d \in joined :
                        courses[orderDetails[d].course].createdBy = a})]
    IN IF ids = {} THEN {<<>>}
       ELSE {<<[tutor |-> [fullName |-> accounts[a].fullName,
                           email |-> accounts[a].email],
                completedCourses |-> count[a]]>> : a \in TopGroups(count)}

\* the routes: if (!top) return res.status(404)
TopResponse(top) ==
    [status |-> IF top = <<>> THEN 404 ELSE 200, top |-> top]

\* db.Order.find({account: accountId}) with the filter left out
OwnOrders_Any(accountId) == DOMAIN orders

\* db.Order.find({account: accountId})
OwnOrders(accountId) == {o \in DOMAIN orders : orders[o].account = accountId}

\* .sort({createdAt: -1}): the orders newest first, equal instants in any order
NewestFirst(found) ==
    {s \in [1..Cardinality(found) -> found] :
        /\ \A i, j \in DOMAIN s : i # j => s[i] # s[j]
        /\ \A i, j \in DOMAIN s : i < j => orders[s[i]].createdAt >= orders[s[j]].createdAt}

\* db.OrderDetail.find({order: order._id}), mapped to the returned fields
DetailsFound(o) ==
    LET hits == SelectSeq([d \in DOMAIN orderDetails |-> d],
                          LAMBDA d : orderDetails[d].order = o)
    IN [i \in DOMAIN hits |->
           [course |-> orderDetails[hits[i]].course,
            quantity |-> orderDetails[hits[i]].quantity,
            price |-> orderDetails[hits[i]].price,
            isFinishCourse |-> orderDetails[hits[i]].isFinishCourse]]

\* orderService.getOrdersByAccount({accountId}): the possible values of data
OrdersByAccountResults(accountId) ==
    {[i \in DOMAIN s |->
         [_id |-> s[i], account |-> orders[s[i]].account,
          totalAmount |-> orders[s[i]].totalAmount, status |-> orders[s[i]].status,
          createdAt |-> orders[s[i]].createdAt, orderDetails |-> DetailsFound(s[i])]] :
     s \in NewestFirst(OwnOrders(accountId))}

\* GET /dashboard/accounts/status
GetAccountStatusStats ==
    /\ out = NoOut
    /\ out' = [op |-> "getAccountStatusStats", in |-> <<>>,
               res |-> [status |-> 200, body |-> getAccountStatusStats]]
    /\ UNCHANGED <<store, req, calls, payLog, areq, auth>>

\* GET /dashboard/account-stats
GetAccountStats ==
    /\ out = NoOut
    /\ out' = [op |-> "getAccountStats", in |-> <<>>, res |-> getAccountStats]
    /\ UNCHANGED <<store, req, calls, payLog, areq, auth>>

\* GET /dashboard/top-account
GetTopAccount ==
    /\ out = NoOut
    /\ \E top \in TopAccountResults :
          out' = [op |-> "getTopAccountByCompletedCourses", in |-> <<>>,
                  res |-> TopResponse(top)]
    /\ UNCHANGED <<store, req, calls, payLog, areq, auth>>

\* GET /dashboard/top-tutor
GetTopTutor ==
    /\ out = NoOut
    /\ \E top \in TopTutorResults :
          out' = [op |-> "getTopTutor", in |-> <<>>, res |-> TopResponse(top)]
    /\ UNCHANGED <<store, req, calls, payLog, areq, auth>>

\* GET /orders: accountId is the verified token's account. The reads are of
\* a store no other request is writing, so the handler is one step.
GetOrdersByAccount ==
    /\ out = NoOut
    /\ \E accountId \in AccountIdInputs :
          IF accountId = NoId
          THEN out' = [op |-> "getOrdersByAccount", in |-> <<accountId>>,
                       res |-> [status |-> 400, data |-> <<>>]]
          ELSE \E data \in OrdersByAccountResults(accountId) :
                  out' = [op |-> "getOrdersByAccount", in |-> <<accountId>>,
                          res |-> [status |-> 200, data |-> data]]
    /\ UNCHANGED <<store, req, calls, payLog, areq, auth>>

\* ------------------------------------------- getOrdersByAccount, by steps
\* Entry of the handler; accountId is the verified token's account.
StartGetOrdersByAccount(p, limit) ==
    /\ CanStart(p, limit)
    /\ \E accountId \in AccountIdInputs :
          LET r == [Idle EXCEPT !.op = "getOrdersByAccount", !.accountId = accountId]
          IN req' = [Settle(req) EXCEPT ![p] =
                        IF accountId = NoId
                        THEN Finish(p, r, "BadRequest")
                        ELSE [r EXCEPT !.pc = "findOrders"]]
    /\ calls' = calls + 1
    /\ UNCHANGED <<store, payLog, areq, out, auth>>

\* const orders = await db.Order.find({account: accountId})...sort(...);
\* orders.map(async (order) => ...) then starts one find of details per order
OrdersFind(p) ==
    /\ req[p].op = "getOrdersByAccount"
    /\ req[p].pc = "findOrders"
    /\ \E s \in NewestFirst(OwnOrders(req[p].accountId)) :
          req' = [Settle(req) EXCEPT ![p] =
                     [req[p] EXCEPT !.pc = "findDetails", !.found = s,
                                    !.pending = OwnOrders(req[p].accountId)]]
    /\ UNCHANGED <<store, calls, payLog, areq, out, auth>>

\* a Promise.all that never resolves
PromiseAllResolved_Never(pending) == FALSE

\* await Promise.all(...): resolved once every find it waits for has returned
PromiseAllResolved(pending) == pending = {}

\* one db.OrderDetail.find({order: order._id}) returns, in any order; when
\* all have, the handler returns its result
OrdersFindDetails(p) ==
    /\ req[p].op = "getOrdersByAccount"
    /\ req[p].pc = "findDetails"
    /\ IF PromiseAllResolved(req[p].pending)
       THEN req' = [Settle(req) EXCEPT ![p] = Finish(p, req[p], "OK")]
       ELSE \E o \in req[p].pending :
               req' = [Settle(req) EXCEPT ![p] =
                          [req[p] EXCEPT !.pending = @ \ {o}]]
    /\ UNCHANGED <<store, calls, payLog, areq, out, auth>>

\* ---------------------------------------------------------------- accounts
\* accountSchema: fullName, email and phone are declared unique, so the
\* collection has a unique index on each and the store rejects (E11000) a
\* write that would give two documents the same value in one of them.
UniqueFields == {"fullName", "email", "phone"}

\* the collection without its unique indexes: no write is rejected
UniqueIndexRejects_NoIndex(id, doc) == FALSE

\* would the store reject writing doc as the document with this id?
UniqueIndexRejects(id, doc) ==
    \E a \in DOMAIN accounts \ {id} : \E f \in UniqueFields : accounts[a][f] = doc[f]

\* the clock counts periods of five minutes; an otp lives for ten minutes
OtpLifetime == 2
MaxClock == 3

\* generateOtp(): six digits drawn at random
OtpValues == {"111111", "222222"}

\* otp: null, otpExpiration: null
NullOtp == [otp |-> NoId, otpExpiration |-> 0]

\* the otp of an account that registered at instant 0 and has not verified
SeedOtp == [otp |-> "111111", otpExpiration |-> OtpLifetime]

\* the tutors who created the courses of the store each hold a certification
\* that an admin has checked and allowed to teach
SeedCertifications ==
    LET creators == SelectSeq(<<"a2", "a3">>,
                        LAMBDA a : \E c \in DOMAIN courses : courses[c].createdBy = a)
    IN [i \in DOMAIN creators |->
           [createBy |-> creators[i], isChecked |-> TRUE, isCanTeach |-> TRUE]]

\* ids the store gives to new Account documents
NewAccountIds == <<"a3", "a4", "a5", "a6">>

NewAccountId ==
    NewAccountIds[CHOOSE i \in DOMAIN NewAccountIds :
                     /\ NewAccountIds[i] \notin DOMAIN accounts
                     /\ \A j \in 1..(i - 1) : NewAccountIds[j] \in DOMAIN accounts]

\* the bodies of the registration requests: a new identity, one with the
\* full name of a1, one that shares only its email with the first
RegisterInputs ==
    {[fullName |-> "n3", email |-> "e3", phone |-> "p3"],
     [fullName |-> "n1", email |-> "e4", phone |-> "p4"],
     [fullName |-> "n4", email |-> "e3", phone |-> "p4"]}

\* the bodies of the profile updates; NoId stands for a key that is absent
UpdateInputs ==
    {[fullName |-> "n3", email |-> NoId, phone |-> NoId],
     [fullName |-> NoId, email |-> "e3", phone |-> "p2"],
     [fullName |-> "n2", email |-> "e4", phone |-> NoId]}

AccountSettle(r) ==
    [p \in Procs |-> IF r[p].pc = "done" THEN IdleAccountRequest ELSE r[p]]

\* A new request takes the first free slot.
AccountCanStart(p) ==
    /\ areq[p].pc \in {"idle", "done"}
    /\ p = "r2" => areq["r1"].pc \notin {"idle", "done"}
    /\ calls < MaxCalls

AccountFinish(r, status) == [r EXCEPT !.pc = "done", !.result = status]

\* register / registerTutor up to the first await; the bodies drawn pass the
\* four validate* checks
StartRegister(p, op) ==
    /\ AccountCanStart(p)
    /\ \E body \in RegisterInputs :
          areq' = [AccountSettle(areq) EXCEPT ![p] =
                      [IdleAccountRequest EXCEPT !.op = op, !.pc = "findExisting",
                                                 !.fullName = body.fullName,
                                                 !.email = body.email,
                                                 !.phone = body.phone]]
    /\ calls' = calls + 1
    /\ UNCHANGED <<store, req, payLog, out, auth>>

\* const existingAccount = await db.Account.findOne({$or: [{email}, {phone},
\* {fullName}]}) and the three returns with status 400
RegisterFindExisting(p) ==
    /\ areq[p].op \in {"register", "registerTutor"}
    /\ areq[p].pc = "findExisting"
    /\ areq' = [AccountSettle(areq) EXCEPT ![p] =
                   IF \E a \in DOMAIN accounts :
                         \/ accounts[a].email = areq[p].email
                         \/ accounts[a].phone = areq[p].phone
                         \/ accounts[a].fullName = areq[p].fullName
                   THEN AccountFinish(areq[p], 400)
                   ELSE [areq[p] EXCEPT !.pc = "save"]]
    /\ UNCHANGED <<store, req, calls, payLog, out, auth>>

\* await bcrypt.hash(...); new db.Account({...status: "Inactive", otp,
\* otpExpiration}) (role "Tutor" in registerTutor, the default "User" in
\* register), otpExpiration ten minutes from now; await
\* newAccount.save(). A rejected save is caught and answered with 500; after
\* a save the mail is sent, and a failure to send it is answered with 500.
RegisterSave(p) ==
    /\ areq[p].op \in {"register", "registerTutor"}
    /\ areq[p].pc = "save"
    /\ LET doc == [fullName |-> areq[p].fullName, email |-> areq[p].email,
                   phone |-> areq[p].phone,
                   role |-> IF areq[p].op = "registerTutor" THEN "Tutor" ELSE "User",
                   status |-> "Inactive"]
           id == NewAccountId
       IN IF UniqueIndexRejects(id, doc)
          THEN /\ areq' = [AccountSettle(areq) EXCEPT ![p] =
                              [AccountFinish(areq[p], 500) EXCEPT !.rejected = TRUE]]
               /\ UNCHANGED <<accounts, otps>>
          ELSE /\ accounts' = [a \in DOMAIN accounts \cup {id} |->
                                  IF a = id THEN doc ELSE accounts[a]]
               /\ \E otp \in OtpValues :
                     otps' = [a \in DOMAIN accounts \cup {id} |->
                                 IF a = id
                                 THEN [otp |-> otp, otpExpiration |-> clock + OtpLifetime]
                                 ELSE otps[a]]
               /\ \E status \in {201, 500} :
                     areq' = [AccountSettle(areq) EXCEPT ![p] =
                                 AccountFinish(areq[p], status)]
    /\ UNCHANGED <<courses, paymentMethods, orders, orderDetails, req, calls, payLog,
                   out, certifications, clock>>

\* the order of the three uniqueness checks of updateAccountProfile
CheckOrder == <<"email", "phone", "fullName">>

\* if (updates[f] && updates[f] !== account[f])
NeedsCheck(r, f) == r[f] # NoId /\ r[f] # r.account[f]

\* the first check from the i-th on that reads the store, 0 if none does
NextCheck(r, i) ==
    LET todo == {j \in i..Len(CheckOrder) : NeedsCheck(r, CheckOrder[j])}
    IN IF todo = {} THEN 0 ELSE CHOOSE j \in todo : \A k \in todo : j <= k

AfterCheck(r, i) ==
    IF NextCheck(r, i) = 0 THEN [r EXCEPT !.pc = "save", !.check = 0]
    ELSE [r EXCEPT !.pc = "check", !.check = NextCheck(r, i)]

\* updateAccountProfile up to the first await; userId is the verified
\* token's account and the keys of the body are allowed ones
StartUpdateAccountProfile(p) ==
    /\ AccountCanStart(p)
    /\ \E userId \in SeedAccounts \cup {"aX"}, updates \in UpdateInputs :
          areq' = [AccountSettle(areq) EXCEPT ![p] =
                      [IdleAccountRequest EXCEPT !.op = "updateAccountProfile",
                                                 !.pc = "findAccount",
                                                 !.userId = userId,
                                                 !.fullName = updates.fullName,
                                                 !.email = updates.email,
                                                 !.phone = updates.phone]]
    /\ calls' = calls + 1
    /\ UNCHANGED <<store, req, payLog, out, auth>>

\* const accounts = await db.Account.find({_id: userId}); account is the
\* document as it is read here
UpdateFindAccount(p) ==
    /\ areq[p].op = "updateAccountProfile"
    /\ areq[p].pc = "findAccount"
    /\ areq' = [AccountSettle(areq) EXCEPT ![p] =
                   IF areq[p].userId \notin DOMAIN accounts
                   THEN AccountFinish(areq[p], 404)
                   ELSE AfterCheck([areq[p] EXCEPT !.account = accounts[areq[p].userId]], 1)]
    /\ UNCHANGED <<store, req, calls, payLog, out, auth>>

\* await db.Account.findOne({[f]: updates[f]}); Conflict if there is one
UpdateCheckUnique(p) ==
    /\ areq[p].op = "updateAccountProfile"
    /\ areq[p].pc = "check"
    /\ LET f == CheckOrder[areq[p].check] IN
       areq' = [AccountSettle(areq) EXCEPT ![p] =
                   IF \E a \in DOMAIN accounts : accounts[a][f] = areq[p][f]
                   THEN AccountFinish(areq[p], 409)
                   ELSE AfterCheck(areq[p], areq[p].check + 1)]
    /\ UNCHANGED <<store, req, calls, payLog, out, auth>>

\* account[key] = updates[key]; await account.save(): the save writes the
\* paths whose value differs from the document as it was read
UpdateSaveAccount(p) ==
    /\ areq[p].op = "updateAccountProfile"
    /\ areq[p].pc = "save"
    /\ LET id == areq[p].userId
           modified == {f \in UniqueFields : NeedsCheck(areq[p], f)}
           doc == [k \in DOMAIN accounts[id] |->
                      IF k \in modified THEN areq[p][k] ELSE accounts[id][k]]
           written == [k \in DOMAIN accounts[id] |->
                          IF k \in modified THEN areq[p][k] ELSE "unwritten"]
       IN IF UniqueIndexRejects(id, written)
          THEN /\ areq' = [AccountSettle(areq) EXCEPT ![p] =
                              [AccountFinish(areq[p], 500) EXCEPT !.rejected = TRUE]]
               /\ UNCHANGED accounts
          ELSE /\ accounts' = [accounts EXCEPT ![id] = doc]
               /\ areq' = [AccountSettle(areq) EXCEPT ![p] = AccountFinish(areq[p], 200)]
    /\ UNCHANGED <<courses, paymentMethods, orders, orderDetails, req, calls, payLog, out, auth>>

\* ---------------------------------------------------------- certifications
MaxCertifications == 3

\* the callers of the certification and course handlers: the seed accounts,
\* a second tutor, and the id of no account
TutorIdInputs == {"a1", "a2", "a3", "aX"}

\* registerCertification up to the first await; the body drawn passes the
\* five checks of its fields
StartRegisterCertification(p) ==
    /\ AccountCanStart(p)
    /\ \E userId \in TutorIdInputs :
          areq' = [AccountSettle(areq) EXCEPT ![p] =
                      [IdleAccountRequest EXCEPT !.op = "registerCertification",
                                                 !.pc = "findAccount",
                                                 !.userId = userId]]
    /\ calls' = calls + 1
    /\ UNCHANGED <<store, req, payLog, out, auth>>

\* const account = await db.Account.findById(userId) and the returns with
\* 404 (no account) and 403 (not Active, not a Tutor)
CertificationFindAccount(p) ==
    /\ areq[p].op = "registerCertification"
    /\ areq[p].pc = "findAccount"
    /\ LET id == areq[p].userId IN
       areq' = [AccountSettle(areq) EXCEPT ![p] =
                   IF id \notin DOMAIN accounts THEN AccountFinish(areq[p], 404)
                   ELSE IF accounts[id].status # "Active" THEN AccountFinish(areq[p], 403)
                   ELSE IF accounts[id].role # "Tutor" THEN AccountFinish(areq[p], 403)
                   ELSE [areq[p] EXCEPT !.pc = "save"]]
    /\ UNCHANGED <<store, req, calls, payLog, out, auth>>

\* new db.Certification({..., isChecked: false, isCanTeach: false, createBy:
\* userId}); await certification.save(). The name is unique in the
\* collection: a save the index rejects is answered with 500.
CertificationSave(p) ==
    /\ areq[p].op = "registerCertification"
    /\ areq[p].pc = "save"
    /\ Len(certifications) < MaxCertifications
    /\ \/ /\ certifications' = Append(certifications,
                                       [createBy |-> areq[p].userId,
                                        isChecked |-> FALSE, isCanTeach |-> FALSE])
          /\ areq' = [AccountSettle(areq) EXCEPT ![p] = AccountFinish(areq[p], 201)]
       \/ /\ areq' = [AccountSettle(areq) EXCEPT ![p] =
                          [AccountFinish(areq[p], 500) EXCEPT !.rejected = TRUE]]
          /\ UNCHANGED certifications
    /\ UNCHANGED <<store, req, calls, payLog, out, otps, clock>>

CertificationFlagOps == {"updateCertificationIsChecked", "updateCertificationIsCanTeach"}

\* the field each of the two handlers sets
FlagOf(op) == IF op = "updateCertificationIsChecked" THEN "isChecked" ELSE "isCanTeach"

\* updateCertificationIsChecked / updateCertificationIsCanTeach up to the
\* first await; 0 stands for a certificationId that is absent
StartUpdateCertification(p, op) ==
    /\ AccountCanStart(p)
    /\ \E certificationId \in 0..MaxCertifications :
          LET r == [IdleAccountRequest EXCEPT !.op = op,
                                              !.certificationId = certificationId]
          IN areq' = [AccountSettle(areq) EXCEPT ![p] =
                         IF certificationId = 0 THEN AccountFinish(r, 400)
                         ELSE [r EXCEPT !.pc = "findCertification"]]
    /\ calls' = calls + 1
    /\ UNCHANGED <<store, req, payLog, out, auth>>

\* if (certification.isChecked) / if (certification.isCanTeach)
AlreadySet(certification, flag) == certification[flag]

\* const certification = await db.Certification.findById(certificationId);
\* 404 if there is none, 400 if the flag is already true
UpdateCertificationFind(p) ==
    /\ areq[p].op \in CertificationFlagOps
    /\ areq[p].pc = "findCertification"
    /\ LET id == areq[p].certificationId IN
       areq' = [AccountSettle(areq) EXCEPT ![p] =
                   IF id \notin DOMAIN certifications THEN AccountFinish(areq[p], 404)
                   ELSE IF AlreadySet(certifications[id], FlagOf(areq[p].op))
                        THEN AccountFinish(areq[p], 400)
                   ELSE [areq[p] EXCEPT !.pc = "save"]]
    /\ UNCHANGED <<store, req, calls, payLog, out, auth>>

\* certification.isChecked = true (or isCanTeach); await certification.save()
UpdateCertificationSave(p) ==
    /\ areq[p].op \in CertificationFlagOps
    /\ areq[p].pc = "save"
    /\ certifications' = [certifications EXCEPT
                             ![areq[p].certificationId][FlagOf(areq[p].op)] = TRUE]
    /\ areq' = [AccountSettle(areq) EXCEPT ![p] = AccountFinish(areq[p], 200)]
    /\ UNCHANGED <<store, req, calls, payLog, out, otps, clock>>

\* ids the store gives to new Course documents
NewCourseIds == <<"c4", "c5", "c6", "c7">>

NewCourseId ==
    NewCourseIds[CHOOSE i \in DOMAIN NewCourseIds :
                    /\ NewCourseIds[i] \notin DOMAIN courses
                    /\ \A j \in 1..(i - 1) : NewCourseIds[j] \in DOMAIN courses]

\* createCourse up to the first await; the body drawn passes the five checks
\* of its fields
StartCreateCourse(p) ==
    /\ AccountCanStart(p)
    /\ \E userId \in TutorIdInputs :
          areq' = [AccountSettle(areq) EXCEPT ![p] =
                      [IdleAccountRequest EXCEPT !.op = "createCourse",
                                                 !.pc = "findAccount",
                                                 !.userId = userId]]
    /\ calls' = calls + 1
    /\ UNCHANGED <<store, req, payLog, out, auth>>

\* const account = await db.Account.findById(userId); 404 if there is none,
\* 403 if it is not Active
CourseFindAccount(p) ==
    /\ areq[p].op = "createCourse"
    /\ areq[p].pc = "findAccount"
    /\ LET id == areq[p].userId IN
       areq' = [AccountSettle(areq) EXCEPT ![p] =
                   IF id \notin DOMAIN accounts THEN AccountFinish(areq[p], 404)
                   ELSE IF accounts[id].status # "Active" THEN AccountFinish(areq[p], 403)
                   ELSE [areq[p] EXCEPT !.pc = "findCertification"]]
    /\ UNCHANGED <<store, req, calls, payLog, out, auth>>

\* a query that accepts any certification of the user
ValidCertification_AnyFlags(userId) ==
    \E i \in DOMAIN certifications : certifications[i].createBy = userId

\* db.Certification.findOne({createBy: userId, isChecked: true, isCanTeach:
\* true}) finds a document
ValidCertification(userId) ==
    \E i \in DOMAIN certifications :
        /\ certifications[i].createBy = userId
        /\ certifications[i].isChecked
        /\ certifications[i].isCanTeach

\* const validCertification = await db.Certification.findOne({...}); 403 if
\* there is none
CourseFindCertification(p) ==
    /\ areq[p].op = "createCourse"
    /\ areq[p].pc = "findCertification"
    /\ areq' = [AccountSettle(areq) EXCEPT ![p] =
                   IF ValidCertification(areq[p].userId)
                   THEN [areq[p] EXCEPT !.pc = "save"]
                   ELSE AccountFinish(areq[p], 403)]
    /\ UNCHANGED <<store, req, calls, payLog, out, auth>>

\* new db.Course({..., price, createdBy: userId}); await course.save();
\* isActive takes the schema's default
CourseSave(p) ==
    /\ areq[p].op = "createCourse"
    /\ areq[p].pc = "save"
    /\ LET id == NewCourseId IN
       courses' = [c \in DOMAIN courses \cup {id} |->
                      IF c = id
                      THEN [price |-> 3 * Unit, isActive |-> TRUE,
                            createdBy |-> areq[p].userId]
                      ELSE courses[c]]
    /\ areq' = [AccountSettle(areq) EXCEPT ![p] = AccountFinish(areq[p], 201)]
    /\ UNCHANGED <<accounts, paymentMethods, orders, orderDetails, req, calls, payLog,
                   out, auth>>

\* --------------------------------------------------------- otp verification
VerifyOps == {"verifyOtp", "verifyTutorOtp"}

\* the emails of the verify requests: of the account waiting for its otp, of
\* the first registration, and of no account
EmailInputs == {"e5", "e3", "eX"}

\* the otp of the request: the two six-digit strings and one that is not
OtpInputs == OtpValues \cup {"12ab"}

\* validateOtp(otp): an error unless the otp is a string of six digits
validateOtp(otp) == otp \notin OtpValues

\* verifyOtp / verifyTutorOtp up to the first await; the emails drawn pass
\* validateEmail
StartVerifyOtp(p, op) ==
    /\ AccountCanStart(p)
    /\ \E email \in EmailInputs, otp \in OtpInputs :
          LET r == [IdleAccountRequest EXCEPT !.op = op, !.email = email, !.otp = otp]
          IN areq' = [AccountSettle(areq) EXCEPT ![p] =
                         IF validateOtp(otp) THEN AccountFinish(r, 400)
                         ELSE [r EXCEPT !.pc = "findAccount"]]
    /\ calls' = calls + 1
    /\ UNCHANGED <<store, req, payLog, out, auth>>

\* db.Account.findOne({email}): the id of the document, NoId if there is none
FindByEmail(email) ==
    IF \E a \in DOMAIN accounts : accounts[a].email = email
    THEN CHOOSE a \in DOMAIN accounts : accounts[a].email = email
    ELSE NoId

\* an expiration that is never found to have passed
OtpExpired_Never(otpExpiration, date) == FALSE

\* account.otpExpiration < new Date()
OtpExpired(otpExpiration, date) == otpExpiration < date

\* const account = await db.Account.findOne({email}) and the checks that
\* follow it without an await: 404 if there is no account, 400 if it is
\* Active, 403 from verifyTutorOtp if it is no Tutor, 400 if the otp differs
\* from the stored one or its expiration has passed
VerifyFindAccount(p) ==
    /\ areq[p].op \in VerifyOps
    /\ areq[p].pc = "findAccount"
    /\ LET id == FindByEmail(areq[p].email) IN
       areq' = [AccountSettle(areq) EXCEPT ![p] =
                   IF id = NoId THEN AccountFinish(areq[p], 404)
                   ELSE IF accounts[id].status = "Active" THEN AccountFinish(areq[p], 400)
                   ELSE IF areq[p].op = "verifyTutorOtp" /\ accounts[id].role # "Tutor"
                        THEN AccountFinish(areq[p], 403)
                   ELSE IF otps[id].otp # areq[p].otp THEN AccountFinish(areq[p], 400)
                   ELSE IF OtpExpired(otps[id].otpExpiration, clock)
                        THEN AccountFinish(areq[p], 400)
                   ELSE [areq[p] EXCEPT !.pc = "save", !.userId = id,
                                        !.checkedAt = clock]]
    /\ UNCHANGED <<store, req, calls, payLog, out, auth>>

\* account.status = "Active"; account.otp = null; account.otpExpiration =
\* null; await account.save(). A rejected save is answered with 500; after a
\* save the welcome mail is sent, and a failure to send it is only logged.
VerifySave(p) ==
    /\ areq[p].op \in VerifyOps
    /\ areq[p].pc = "save"
    /\ \/ /\ accounts' = [accounts EXCEPT ![areq[p].userId].status = "Active"]
          /\ otps' = [otps EXCEPT ![areq[p].userId] = NullOtp]
          /\ areq' = [AccountSettle(areq) EXCEPT ![p] = AccountFinish(areq[p], 200)]
       \/ /\ areq' = [AccountSettle(areq) EXCEPT ![p] =
                          [AccountFinish(areq[p], 500) EXCEPT !.rejected = TRUE]]
          /\ UNCHANGED <<accounts, otps>>
    /\ UNCHANGED <<courses, paymentMethods, orders, orderDetails, req, calls, payLog,
                   out, certifications, clock>>

\* five minutes pass
Tick ==
    /\ clock < MaxClock
    /\ clock' = clock + 1
    /\ UNCHANGED <<store, req, calls, payLog, areq, out, certifications, otps>>

\* ---------------------------------------------------------- specifications
\* the request slots, counters and logs before the first request
InitRequests ==
    /\ req = [p \in Procs |-> Idle]
    /\ calls = 0
    /\ payLog = [o \in 1..MaxOrders |-> <<>>]
    /\ areq = [p \in Procs |-> IdleAccountRequest]
    /\ certifications = SeedCertifications
    /\ otps = [a \in DOMAIN accounts |->
                  IF accounts[a].status = "Active" THEN NullOtp ELSE SeedOtp]
    /\ clock = 0

Init ==
    /\ courses = SeedCourses
    /\ accounts = SeedAccountDocs
    /\ paymentMethods = <<>>
    /\ orders = <<>>
    /\ orderDetails = <<>>
    /\ InitRequests
    /\ out = NoOut

Step(p, clockSteps) ==
    \/ CreateFindCourse(p)
    \/ CreateFindAccount(p)
    \/ CreateFindPaymentMethod(p)
    \/ CreateSavePaymentMethod(p)
    \/ CreateSaveOrder(p, clockSteps)
    \/ CreateSaveOrderDetail(p)
    \/ UpdateFindOrder(p)
    \/ UpdateSaveStatus(p)

Environment ==
    \/ \E d \in 1..MaxOrders, t \in SeedAccounts : CompleteCourse(d, t)
    \/ \E o \in 1..MaxOrders : ExternalCancel(o)

\* requests interleave at their suspension points; the store is reliable
Next ==
    \/ \E p \in Procs : StartCreateOrder(p, Cardinality(Procs), InterleavedCourseIds)
    \/ \E p \in Procs : StartUpdateOrderStatus(p, Cardinality(Procs))
    \/ \E p \in Procs : Step(p, InterleavedClockSteps)
    \/ Environment

Spec == Init /\ [][Next]_vars

\* one request at a time: a request starts only when none is in flight
NextSeq ==
    \/ \E p \in Procs : StartCreateOrder(p, 1, CourseIdInputs)
    \/ \E p \in Procs : StartUpdateOrderStatus(p, 1)
    \/ \E p \in Procs : Step(p, ClockSteps)
    \/ Environment

SpecSeq == Init /\ [][NextSeq]_vars

\* requests interleave and any store operation may reject
NextFail ==
    \/ Next
    \/ \E p \in Procs : StoreFails(p)

SpecFail == Init /\ [][NextFail]_vars

\* one request at a time and any store operation may reject
NextSeqFail ==
    \/ \E p \in Procs : StartCreateOrder(p, 1, InterleavedCourseIds)
    \/ \E p \in Procs : StartUpdateOrderStatus(p, 1)
    \/ \E p \in Procs : Step(p, InterleavedClockSteps)
    \/ Environment
    \/ \E p \in Procs : StoreFails(p)

SpecSeqFail == Init /\ [][NextSeqFail]_vars

\* the next step of a request in flight: the store operation it is suspended
\* on returns
LiveStep(p) ==
    \/ Step(p, InterleavedClockSteps)
    \/ OrdersFind(p)
    \/ OrdersFindDetails(p)

\* the three order handlers interleaved; a store operation returns or rejects
NextLive ==
    \/ \E p \in Procs : /\ StartCreateOrder(p, Cardinality(Procs), LiveCourseIds)
                        /\ req'[p].accountId \in LiveAccountIds
    \/ \E p \in Procs : /\ StartUpdateOrderStatus(p, Cardinality(Procs))
                        /\ req'[p].accountId \in LiveAccountIds
    \/ \E p \in Procs : /\ StartGetOrdersByAccount(p, Cardinality(Procs))
                        /\ req'[p].accountId \in LiveAccountIds
    \/ \E p \in Procs : LiveStep(p)
    \/ \E p \in Procs : StoreFails(p)

\* every store operation a request is suspended on eventually returns
SpecLive ==
    Init /\ [][NextLive]_vars /\ \A p \in Procs : WF_vars(LiveStep(p))

\* the payment URL of every input, applied to inputs drawn at the start
InitUrl ==
    /\ courses = SeedCourses
    /\ accounts = SeedAccountDocs
    /\ paymentMethods = <<>>
    /\ orders = <<>>
    /\ orderDetails = <<>>
    /\ InitRequests
    /\ \E i \in UrlInputs : out = [op |-> "paymentUrl", in |-> i, res |-> <<>>]

NextUrl == BuildPaymentUrl

SpecUrl == InitUrl /\ [][NextUrl]_vars

\* the two revenue reports, asked of a store of orders drawn at the start
InitRevenue ==
    /\ courses = SeedCourses
    /\ accounts = SeedAccountDocs
    /\ orders \in OrderStores([account : {"a1"}, paymentMethod : {1},
                               totalAmount : {3 * Unit, 1055500},
                               status : {"Pending", "Completed", "Cancelled"},
                               createdAt : CreatedAtInputs], MaxOrders)
    /\ paymentMethods = IF orders = <<>> THEN <<>> ELSE <<[name |-> "VNPay"]>>
    /\ orderDetails = [o \in DOMAIN orders |->
                          [order |-> o, course |-> CourseOfAmount(orders[o].totalAmount),
                           quantity |-> Quantity, price |-> orders[o].totalAmount,
                           isFinishCourse |-> FALSE]]
    /\ InitRequests
    /\ \E year \in YearInputs, offset \in UtcOffsets :
          out = [op |-> "revenue", in |-> [year |-> year, offset |-> offset],
                 res |-> <<>>]

NextRevenue == GetMonthlyRevenue \/ GetRevenueByYear

SpecRevenue == InitRevenue /\ [][NextRevenue]_vars

\* an Admin account next to the seed accounts
AdminDoc ==
    [fullName |-> "n0", email |-> "e0", phone |-> "p0", role |-> "Admin",
     status |-> "Active"]

\* Stores of accounts: the seed accounts, with or without an Admin, each
\* Active or Inactive
AccountStores ==
    {[a \in ids |-> [(IF a = "a0" THEN AdminDoc ELSE SeedAccountDocs[a])
                        EXCEPT !.status = st[a]]] :
        ids \in {SeedAccounts, SeedAccounts \cup {"a0"}},
        st \in [SeedAccounts \cup {"a0"} -> {"Active", "Inactive"}]}

\* Stores of order details: every order has its detail or, where a failed
\* save left it without one, none; a detail may be finished
DetailStores ==
    {SelectSeq([o \in DOMAIN orders |->
                   [order |-> o, course |-> CourseOfAmount(orders[o].totalAmount),
                    quantity |-> Quantity,
                    price |-> orders[o].totalAmount, isFinishCourse |-> f[o] = "finished",
                    kept |-> f[o] # "none"]],
               LAMBDA d : d.kept) :
        f \in [DOMAIN orders -> {"none", "open", "finished"}]}

\* the statistics and the list of orders, asked of a store drawn at the start
InitDash ==
    /\ courses = SeedCourses
    /\ accounts \in AccountStores
    /\ orders \in OrderStores([account : SeedAccounts, paymentMethod : {1},
                               totalAmount : {3 * Unit}, status : {"Completed"},
                               createdAt : {StartTick, StartTick + 1}],
                              MaxOrders + 1)
    /\ paymentMethods = IF orders = <<>> THEN <<>> ELSE <<[name |-> "VNPay"]>>
    /\ \E ds \in DetailStores :
          orderDetails = [i \in DOMAIN ds |->
                             [order |-> ds[i].order, course |-> ds[i].course,
                              quantity |-> ds[i].quantity, price |-> ds[i].price,
                              isFinishCourse |-> ds[i].isFinishCourse]]
    /\ InitRequests
    /\ out = NoOut

NextDash ==
    \/ GetAccountStatusStats
    \/ GetAccountStats
    \/ GetTopAccount
    \/ GetTopTutor
    \/ GetOrdersByAccount

SpecDash == InitDash /\ [][NextDash]_vars

\* registrations and profile updates, two requests at a time
NextAccount ==
    \E p \in Procs :
        \/ StartRegister(p, "register")
        \/ StartRegister(p, "registerTutor")
        \/ RegisterFindExisting(p)
        \/ RegisterSave(p)
        \/ StartUpdateAccountProfile(p)
        \/ UpdateFindAccount(p)
        \/ UpdateCheckUnique(p)
        \/ UpdateSaveAccount(p)

SpecAccount == Init /\ [][NextAccount]_vars

\* a second tutor, as registerTutor and verifyTutorOtp leave it
SecondTutorDoc ==
    [fullName |-> "n3", email |-> "e3", phone |-> "p3", role |-> "Tutor",
     status |-> "Active"]

\* the two top-performer queries, asked of a store with two purchasers and
\* two tutors drawn at the start
InitTop ==
    /\ accounts = [a \in SeedAccounts \cup {"a3"} |->
                      IF a = "a3" THEN SecondTutorDoc ELSE SeedAccountDocs[a]]
    /\ \E creator \in {"a2", "a3"} :
          courses = [SeedCourses EXCEPT !["c3"].createdBy = creator]
    /\ orders \in OrderStores([account : SeedAccounts, paymentMethod : {1},
                               totalAmount : {3 * Unit, 1055500},
                               status : {"Completed"}, createdAt : {StartTick}],
                              MaxOrders + 1)
    /\ paymentMethods = IF orders = <<>> THEN <<>> ELSE <<[name |-> "VNPay"]>>
    /\ \E ds \in DetailStores :
          orderDetails = [i \in DOMAIN ds |->
                             [order |-> ds[i].order, course |-> ds[i].course,
                              quantity |-> ds[i].quantity, price |-> ds[i].price,
                              isFinishCourse |-> ds[i].isFinishCourse]]
    /\ InitRequests
    /\ out = NoOut

NextTop == GetTopAccount \/ GetTopTutor

SpecTop == InitTop /\ [][NextTop]_vars

\* the certification and course handlers, interleaved, on a store where the
\* second tutor is verified and holds a certification an admin has not fully
\* approved
InitCert ==
    /\ courses = SeedCourses
    /\ accounts = [a \in SeedAccounts \cup {"a3"} |->
                      IF a = "a3" THEN SecondTutorDoc ELSE SeedAccountDocs[a]]
    /\ paymentMethods = <<>>
    /\ orders = <<>>
    /\ orderDetails = <<>>
    /\ req = [p \in Procs |-> Idle]
    /\ calls = 0
    /\ payLog = [o \in 1..MaxOrders |-> <<>>]
    /\ areq = [p \in Procs |-> IdleAccountRequest]
    /\ out = NoOut
    /\ \E checked \in BOOLEAN, canTeach \in BOOLEAN :
          /\ ~(checked /\ canTeach)
          /\ certifications = Append(SeedCertifications,
                                     [createBy |-> "a3", isChecked |-> checked,
                                      isCanTeach |-> canTeach])
    /\ otps = [a \in DOMAIN accounts |-> NullOtp]
    /\ clock = 0

NextCert ==
    \/ \E p \in Procs : StartRegisterCertification(p)
    \/ \E p \in Procs : CertificationFindAccount(p)
    \/ \E p \in Procs : CertificationSave(p)
    \/ \E p \in Procs, op \in CertificationFlagOps : StartUpdateCertification(p, op)
    \/ \E p \in Procs : UpdateCertificationFind(p)
    \/ \E p \in Procs : UpdateCertificationSave(p)
    \/ \E p \in Procs : StartCreateCourse(p)
    \/ \E p \in Procs : CourseFindAccount(p)
    \/ \E p \in Procs : CourseFindCertification(p)
    \/ \E p \in Procs : CourseSave(p)

SpecCert == InitCert /\ [][NextCert]_vars

\* an account that registered at instant 0 and has not verified
WaitingDoc(role) ==
    [fullName |-> "n5", email |-> "e5", phone |-> "p5", role |-> role,
     status |-> "Inactive"]

\* registrations of one new identity and verifications, interleaved, while
\* time passes; at the start one registered account of either role waits
\* for its otp
InitOtp ==
    /\ courses = SeedCourses
    /\ \E role \in {"User", "Tutor"} :
          accounts = [a \in SeedAccounts \cup {"a3"} |->
                         IF a = "a3" THEN WaitingDoc(role) ELSE SeedAccountDocs[a]]
    /\ paymentMethods = <<>>
    /\ orders = <<>>
    /\ orderDetails = <<>>
    /\ InitRequests
    /\ out = NoOut

NextOtp ==
    \/ \E p \in Procs, op \in {"register", "registerTutor"} :
          StartRegister(p, op) /\ areq'[p].fullName = "n3"
    \/ \E p \in Procs : RegisterFindExisting(p)
    \/ \E p \in Procs : RegisterSave(p)
    \/ \E p \in Procs, op \in VerifyOps : StartVerifyOtp(p, op)
    \/ \E p \in Procs : VerifyFindAccount(p)
    \/ \E p \in Procs : VerifySave(p)
    \/ Tick

SpecOtp == InitOtp /\ [][NextOtp]_vars

\* ------------------------------------------------------------ properties
OwnerCalls(o) == DOMAIN payLog[o]
PaidCalls(o) == {i \in OwnerCalls(o) : payLog[o][i].res = "OK"}
DetailsOf(o) == {d \in DOMAIN orderDetails : orderDetails[d].order = o}
DoneCalls(op) == {p \in Procs : req[p].op = op /\ req[p].pc = "done"}

\* C1: with one request at a time, the owner's updateOrderStatus on a Pending
\* order succeeds and leaves it Completed; the owner's next call on that order
\* finds it Completed, fails with BadRequest and leaves it Completed.
C1_PayTwice ==
    \A o \in DOMAIN payLog : \A i \in OwnerCalls(o) :
        LET e == payLog[o][i] IN
        /\ e.pre = "Pending" => e.res = "OK" /\ e.post = "Completed"
        /\ e.pre = "Completed" => e.res = "BadRequest" /\ e.post = "Completed"
        /\ (i > 1 /\ payLog[o][i-1].res = "OK") =>
               e.pre = "Completed" /\ e.res = "BadRequest" /\ e.post = "Completed"

C1_Witness ==
    \E o \in DOMAIN payLog :
        /\ Len(payLog[o]) >= 2
        /\ payLog[o][1].pre = "Pending" /\ payLog[o][1].res = "OK"
        /\ payLog[o][2].res = "BadRequest"
        /\ orders[o].status = "Completed"

\* C2: of any two owner calls of updateOrderStatus that both started while the
\* order was Pending, exactly one succeeds and the other is rejected with
\* BadRequest, under every interleaving of their read and their write.
C2_OneTransition ==
    \A o \in DOMAIN payLog : \A i, j \in OwnerCalls(o) :
        (i < j /\ payLog[o][i].pre = "Pending" /\ payLog[o][j].pre = "Pending")
            => {payLog[o][i].res, payLog[o][j].res} = {"OK", "BadRequest"}

\* C3: the owner's updateOrderStatus on an order that is Cancelled fails with
\* BadRequest and the order stays Cancelled.
C3_CancelledTerminal ==
    \A o \in DOMAIN payLog : \A i \in OwnerCalls(o) :
        payLog[o][i].pre = "Cancelled" =>
            payLog[o][i].res = "BadRequest" /\ payLog[o][i].post = "Cancelled"

\* C4: with one request at a time, no step takes an order out of Completed,
\* and at most one updateOrderStatus call per order ever succeeds.
C4_CompletedAbsorbing ==
    [][\A o \in DOMAIN orders :
          /\ orders[o].status = "Completed" => orders'[o].status = "Completed"
          /\ Cardinality(PaidCalls(o))' <= 1]_vars

C4_Witness ==
    \E o \in DOMAIN orders :
        /\ orders[o].status = "Completed"
        /\ Len(orders) > o
        /\ \E d \in DetailsOf(o) : orderDetails[d].isFinishCourse

\* C5: an updateOrderStatus call that names an existing order of another
\* account ends with NotFound and has written nothing.
C5_NotOwner ==
    \A p \in DoneCalls("updateOrderStatus") :
        (req[p].orderId \in DOMAIN orders
            /\ orders[req[p].orderId].account # req[p].accountId)
        => req[p].result = "NotFound" /\ req[p].wrote = 0

C5_Witness ==
    \E p \in DoneCalls("updateOrderStatus") :
        /\ req[p].pre = "Pending"
        /\ orders[req[p].orderId].account # req[p].accountId
        /\ req[p].result = "NotFound"
        /\ orders[req[p].orderId].status = "Pending"

C7_ValidateBeforeWrite ==
    \A p \in DoneCalls("createOrder") :
        /\ (req[p].courseId = NoId \/ req[p].accountId = NoId)
               => req[p].result = "BadRequest"
        /\ (req[p].courseId # NoId /\ req[p].accountId \notin DOMAIN accounts \cup {NoId})
               => req[p].result = "NotFound"
        /\ req[p].result \in {"BadRequest", "NotFound"} => req[p].wrote = 0

C7_Witness ==
    /\ \E p \in DoneCalls("createOrder") :
          req[p].accountId = "aX" /\ req[p].courseId = "c1"
              /\ req[p].result = "NotFound"
    /\ Len(orders) > 0

\* C8: no two PaymentMethod documents have the same name.
C8_OnePerName ==
    \A i, j \in DOMAIN paymentMethods :
        paymentMethods[i].name = paymentMethods[j].name => i = j

\* C9: whenever no createOrder call stands between its Order write and its
\* OrderDetail write, every Order has exactly one OrderDetail referencing it,
\* and that OrderDetail has quantity 1.
C9_OrderHasDetail ==
    (\A p \in Procs : req[p].pc # "saveOrderDetail") =>
        \A o \in DOMAIN orders :
            /\ Cardinality(DetailsOf(o)) = 1
            /\ \A d \in DetailsOf(o) : orderDetails[d].quantity = 1

\* C10: every OrderDetail has quantity 1 and the price of its Course, and its
\* Order's totalAmount is that price times that quantity, in every state.
C10_PriceSnapshot ==
    \A d \in DOMAIN orderDetails :
        LET od == orderDetails[d] IN
        /\ od.quantity = 1
        /\ od.price = courses[od.course].price
        /\ orders[od.order].totalAmount = od.price * od.quantity

C10_Witness ==
    \E d \in DOMAIN orderDetails :
        /\ orderDetails[d].isFinishCourse
        /\ orders[orderDetails[d].order].status = "Completed"
        /\ orders[orderDetails[d].order].totalAmount = 3 * Unit

\* a Number that has no fractional part
IsWhole(x) == x % Unit = 0

\* C11: a createOrder call that succeeded returns a URL whose vnp_Amount is
\* 100 times the totalAmount of the Order it persisted and is a non-negative
\* integer, and whose vnp_TxnRef is the orderId it returns.
C11_UrlMatchesOrder ==
    \A p \in DoneCalls("createOrder") :
        req[p].result = "OK" =>
            /\ req[p].dataOrderId \in DOMAIN orders
            /\ req[p].vnp_Amount = 100 * orders[req[p].dataOrderId].totalAmount
            /\ req[p].vnp_Amount >= 0
            /\ IsWhole(req[p].vnp_Amount)
            /\ req[p].vnp_TxnRef = req[p].dataOrderId

\* C12: the query string lists the twelve gateway parameters in ascending
\* order of their keys, the secure hash is the HMAC-SHA512 of exactly that
\* string under the shared secret, and it is appended as the last parameter.
C12_SortedAndSigned ==
    (out.op = "paymentUrl" /\ out.res # <<>>) =>
        LET q == out.res.query
            n == Len(q)
            signed == SubSeq(q, 1, n - 1)
        IN /\ n = 13
           /\ \A i, j \in 1..(n - 1) : i < j => KeyLess(q[i][1], q[j][1])
           /\ \A i \in 1..(n - 1) : q[i][1] # "vnp_SecureHash"
           /\ {q[i][1] : i \in 1..(n - 1)} =
                  {"vnp_Version", "vnp_Command", "vnp_TmnCode", "vnp_Amount",
                   "vnp_CurrCode", "vnp_TxnRef", "vnp_OrderInfo", "vnp_OrderType",
                   "vnp_Locale", "vnp_ReturnUrl", "vnp_IpAddr", "vnp_CreateDate"}
           /\ q[n][1] = "vnp_SecureHash"
           /\ q[n][2] = <<"hmac-sha512-hex", "LH6SD44ECTBWU1PHK3D2YCOI5HLUWGPH", signed>>

C12_Witness ==
    /\ out.op = "paymentUrl" /\ out.res # <<>>
    /\ out.in.ip = NoId /\ out.in.totalAmount = 3 * Unit
    /\ out.res.query[1][1] = "vnp_Amount"
    /\ out.res.query[12][1] = "vnp_Version"

\* C13: when updateOrderStatus reads the store, an order id that names no
\* document and an order id that names another account's order give the caller
\* the same outcome: the call ends with NotFound and the store is left as it was.
C13_MissingOrForeign ==
    [][\A p \in Procs :
          (/\ req[p].op = "updateOrderStatus" /\ req[p].pc = "findOrder"
           /\ req'[p].pc # "findOrder"
           /\ \/ req[p].orderId \notin DOMAIN orders
              \/ orders[req[p].orderId].account # req[p].accountId)
          => /\ req'[p].pc = "done"
             /\ req'[p].result = "NotFound"
             /\ req'[p].wrote = 0
             /\ store' = store]_vars

C13_Witness ==
    \E p \in DoneCalls("updateOrderStatus") :
        /\ req[p].result = "NotFound"
        /\ req[p].orderId \notin DOMAIN orders
        /\ \E o \in DOMAIN orders : orders[o].account # req[p].accountId

\* the Completed orders created in a month of a year, in the calendar that is
\* ahead of UTC by cal hours
CompletedIn(year, month, cal) ==
    {o \in DOMAIN orders :
        /\ orders[o].status = "Completed"
        /\ UtcYear(orders[o].createdAt + cal) = year
        /\ UtcMonth(orders[o].createdAt + cal) = month}

TotalOf(group) == SumOver(group, [o \in DOMAIN orders |-> orders[o].totalAmount])

RevenueReports == IF out.op = "revenue" THEN DOMAIN out.res ELSE {}

\* C14: a revenue report for year Y has exactly 12 entries, for the months 1..12
\* in ascending order, and every month of Y without a Completed order (in UTC
\* or in the server's calendar) reports revenue 0.
C14_TwelveMonthsZeroFilled ==
    \A f \in RevenueReports :
        LET r == out.res[f] IN
        /\ Len(r) = 12
        /\ \A i \in 1..12 : r[i].month = i
        /\ \E cal \in {0, out.in.offset} : \A i \in 1..12 :
              CompletedIn(out.in.year, i, cal) = {} => r[i].revenue = 0

\* C15: a revenue report for year Y counts exactly the Completed orders created
\* in [Jan 1 of Y, Jan 1 of Y+1), each in the calendar month of its createdAt
\* (in UTC or in the server's calendar): every entry, and so their sum, is 15%
\* of the totalAmount of those orders; other orders contribute nothing.
C15_CompletedOfTheYear ==
    \A f \in RevenueReports :
        \E cal \in {0, out.in.offset} : \A i \in 1..12 :
            out.res[f][i].revenue =
                Commission(TotalOf(CompletedIn(out.in.year, i, cal)))

\* C16: both revenue implementations report, for each month, 15% of the total
\* of the orders they matched in that month rounded to 2 decimal places, and
\* so report the same values for the same store and year.
C16_SameRounding ==
    RevenueReports = {"getMonthlyRevenue", "getRevenueByYear"} =>
        \A i \in 1..12 :
            LET matched == MatchCompleted(LocalNewYear(out.in.year, out.in.offset),
                                          LocalNewYear(out.in.year + 1, out.in.offset))
                exact == Commission(TotalOf(MonthGroup(matched, i)))
                rounded == ((exact + Unit \div 200) \div (Unit \div 100)) * (Unit \div 100)
            IN /\ out.res["getMonthlyRevenue"][i].revenue = rounded
               /\ out.res["getRevenueByYear"][i].revenue = rounded

AccountsWith(roles, status) ==
    Cardinality({a \in DOMAIN accounts :
                    accounts[a].role \in roles /\ accounts[a].status = status})

\* C17: the account statistics always carry both the Active and the Inactive
\* count, each the number of accounts with that status and 0 when there is
\* none; the role-partitioned statistics carry both counts for tutors and for
\* users, each the number of accounts of that role and status.
C17_BothStatusKeys ==
    /\ out.op = "getAccountStatusStats" =>
          /\ out.res.status = 200
          /\ out.res.body =
                [Active |-> AccountsWith({"Admin", "Tutor", "User"}, "Active"),
                 Inactive |-> AccountsWith({"Admin", "Tutor", "User"}, "Inactive")]
    /\ out.op = "getAccountStats" =>
          /\ out.res.status = 200
          /\ out.res.body =
                [tutors |-> [active |-> AccountsWith({"Tutor"}, "Active"),
                             inactive |-> AccountsWith({"Tutor"}, "Inactive")],
                 users |-> [active |-> AccountsWith({"User"}, "Active"),
                            inactive |-> AccountsWith({"User"}, "Inactive")]]

\* C18: when no OrderDetail has isFinishCourse = true, the top-account and the
\* top-tutor query return null and their routes answer 404.
C18_NullWhenNoneFinished ==
    (/\ out.op \in {"getTopAccountByCompletedCourses", "getTopTutor"}
     /\ \A d \in DOMAIN orderDetails : ~orderDetails[d].isFinishCourse)
    => out.res.top = <<>> /\ out.res.status = 404

C18_Witness ==
    /\ out.op = "getTopTutor"
    /\ out.res.status = 404
    /\ Len(orderDetails) >= 2
    /\ \A d \in DOMAIN orderDetails : ~orderDetails[d].isFinishCourse

\* the answer of getOrdersByAccount lists exactly the account's orders, newest
\* first, each with exactly the details that reference it
OrdersOfAccountListed ==
    out.op = "getOrdersByAccount" /\ out.res.status = 200 =>
        LET data == out.res.data
            accountId == out.in[1]
        IN /\ {data[i]._id : i \in DOMAIN data} =
                  {o \in DOMAIN orders : orders[o].account = accountId}
           /\ \A i, j \in DOMAIN data : i # j => data[i]._id # data[j]._id
           /\ \A i, j \in DOMAIN data :
                 i < j => orders[data[i]._id].createdAt >= orders[data[j]._id].createdAt
           /\ \A i \in DOMAIN data :
                 /\ data[i].account = accountId
                 /\ data[i].createdAt = orders[data[i]._id].createdAt
                 /\ Len(data[i].orderDetails) = Cardinality(DetailsOf(data[i]._id))
                 /\ \A d \in DetailsOf(data[i]._id) :
                       \E k \in DOMAIN data[i].orderDetails :
                           /\ data[i].orderDetails[k].course = orderDetails[d].course
                           /\ data[i].orderDetails[k].price = orderDetails[d].price
                           /\ data[i].orderDetails[k].isFinishCourse =
                                  orderDetails[d].isFinishCourse

\* C19: getOrdersByAccount(accountId) returns exactly the orders whose account
\* is accountId, newest createdAt first, each carrying exactly the OrderDetails
\* that reference it, and the call leaves the store unchanged.
C19_OwnOrdersNewestFirst ==
    [][(out'.op = "getOrdersByAccount" /\ out.op # "getOrdersByAccount")
          => (store' = store /\ OrdersOfAccountListed')]_vars

C19_Witness ==
    /\ out.op = "getOrdersByAccount" /\ out.res.status = 200
    /\ Len(out.res.data) = 2
    /\ Len(orders) = 3
    /\ out.res.data[1].createdAt > out.res.data[2].createdAt
    /\ out.res.data[1].orderDetails # <<>>
    /\ out.res.data[2].orderDetails = <<>>

\* C20: in every reachable state no two Accounts share a full name, an email
\* or a phone, whatever the sequence and interleaving of register,
\* registerTutor and updateAccountProfile calls.
C20_UniqueIdentity ==
    \A a, b \in DOMAIN accounts :
        a # b => /\ accounts[a].fullName # accounts[b].fullName
                 /\ accounts[a].email # accounts[b].email
                 /\ accounts[a].phone # accounts[b].phone

C20_Witness ==
    /\ Cardinality(DOMAIN accounts) > Cardinality(SeedAccounts)
    /\ \E p \in Procs :
          /\ areq[p].op \in {"register", "registerTutor"}
          /\ areq[p].pc = "done"
          /\ areq[p].rejected
          /\ \E a \in DOMAIN accounts \ SeedAccounts :
                accounts[a].email = areq[p].email

\* C21: a createOrder call whose Order was persisted and whose OrderDetail
\* was not ends in an error: it returns no success result, no orderId and no
\* payment URL.
C21_NoUrlWithoutDetail ==
    \A p \in DoneCalls("createOrder") :
        (req[p].order # 0 /\ DetailsOf(req[p].order) = {}) =>
            /\ req[p].result # "OK"
            /\ req[p].dataOrderId = 0
            /\ req[p].vnp_TxnRef = 0

C21_Witness ==
    \E p \in DoneCalls("createOrder") :
        /\ req[p].order \in DOMAIN orders
        /\ DetailsOf(req[p].order) = {}
        /\ req[p].result = "Internal"

C23_IndependentOrders ==
    [][\A p \in Procs :
          /\ (req[p].op = "createOrder" /\ req[p].order = 0
              /\ req'[p].op = "createOrder" /\ req'[p].order # 0)
             => /\ req'[p].order = Len(orders) + 1
                /\ Len(orders') = Len(orders) + 1
                /\ orders'[req'[p].order].status = "Pending"
                /\ orders'[req'[p].order].account = req[p].accountId
                /\ \A q \in Procs \ {p} : req'[q].order # req'[p].order
          /\ (req[p].op = "createOrder" /\ req[p].pc # "done"
              /\ req'[p].op = "createOrder" /\ req'[p].pc = "done"
              /\ req[p].courseId \in DOMAIN courses
              /\ courses[req[p].courseId].isActive
              /\ req[p].accountId \in DOMAIN accounts)
             => /\ req'[p].result = "OK"
                /\ req'[p].dataOrderId = req[p].order
                /\ req[p].order \in DOMAIN orders'
                /\ orders'[req[p].order].account = req[p].accountId
                /\ \E d \in DOMAIN orderDetails' :
                      /\ orderDetails'[d].order = req[p].order
                      /\ orderDetails'[d].course = req[p].courseId
                      /\ \A e \in DOMAIN orderDetails' :
                            orderDetails'[e].order = req[p].order => e = d]_vars

C23_Witness ==
    \E p, q \in Procs :
        /\ p # q
        /\ req[p].op = "createOrder" /\ req[p].pc = "done" /\ req[p].result = "OK"
        /\ req[q].op = "createOrder" /\ req[q].pc = "saveOrderDetail"
        /\ req[p].courseId = req[q].courseId
        /\ req[p].order > req[q].order

\* C24: in every state every Order's account and paymentMethod and every
\* OrderDetail's order and course are documents of the store.
C24_ReferentialIntegrity ==
    /\ \A o \in DOMAIN orders :
          /\ orders[o].account \in DOMAIN accounts
          /\ orders[o].paymentMethod \in DOMAIN paymentMethods
    /\ \A d \in DOMAIN orderDetails :
          /\ orderDetails[d].order \in DOMAIN orders
          /\ orderDetails[d].course \in DOMAIN courses

C24_Witness ==
    /\ Len(orders) > 0
    /\ Len(orderDetails) = Len(orders)
    /\ Len(paymentMethods) > 0
    /\ \E p \in DoneCalls("createOrder") :
          req[p].accountId \notin DOMAIN accounts /\ req[p].result = "NotFound"

\* finished OrderDetails by purchaser and by creator of the course
FinishedOfPurchaser(a) ==
    Cardinality({d \in DOMAIN orderDetails :
                    /\ orderDetails[d].isFinishCourse
                    /\ orders[orderDetails[d].order].account = a})

FinishedOfCreator(a) ==
    Cardinality({d \in DOMAIN orderDetails :
                    /\ orderDetails[d].isFinishCourse
                    /\ courses[orderDetails[d].course].createdBy = a})

Tutors == {a \in DOMAIN accounts : accounts[a].role = "Tutor"}

\* C25: when a purchaser (top-account) or a creator with role Tutor (top-tutor)
\* has a finished OrderDetail, the query returns one record, for an account
\* whose number of finished OrderDetails is the count reported and is not
\* exceeded by that of any other such account.
C25_TopHasMaximum ==
    /\ (/\ out.op = "getTopAccountByCompletedCourses"
        /\ \E a \in DOMAIN accounts : FinishedOfPurchaser(a) > 0)
       => /\ out.res.status = 200
          /\ Len(out.res.top) = 1
          /\ out.res.top[1].completedCourses =
                FinishedOfPurchaser(out.res.top[1].accountId)
          /\ \A a \in DOMAIN accounts :
                FinishedOfPurchaser(a) <= out.res.top[1].completedCourses
    /\ (/\ out.op = "getTopTutor"
        /\ \E a \in Tutors : FinishedOfCreator(a) > 0)
       => /\ out.res.status = 200
          /\ Len(out.res.top) = 1
          /\ \E a \in Tutors :
                /\ accounts[a].fullName = out.res.top[1].tutor.fullName
                /\ accounts[a].email = out.res.top[1].tutor.email
                /\ out.res.top[1].completedCourses = FinishedOfCreator(a)
          /\ \A a \in Tutors :
                FinishedOfCreator(a) <= out.res.top[1].completedCourses

C25_Witness ==
    /\ out.op = "getTopTutor"
    /\ out.res.status = 200
    /\ out.res.top[1].completedCourses = 2
    /\ \E a \in Tutors : FinishedOfCreator(a) = 1
    /\ \E a, b \in DOMAIN accounts :
          a # b /\ FinishedOfPurchaser(a) > 0 /\ FinishedOfPurchaser(b) > 0

\* C26: a createOrder, updateOrderStatus or getOrdersByAccount request in
\* flight can always take its next step, whatever the other request is doing,
\* and, every store operation returning in the end, it ends with a result or
\* an error.
C26_EveryRequestEnds ==
    /\ [](\A p \in Procs : req[p].pc \notin {"idle", "done"} => ENABLED LiveStep(p))
    /\ \A p \in Procs : (req[p].pc \notin {"idle", "done"}) ~> (req[p].pc = "done")

C26_Witness ==
    \E p, q \in Procs :
        /\ req[p].op = "getOrdersByAccount" /\ req[p].pc = "done"
        /\ req[p].result = "OK" /\ Len(req[p].found) = 2
        /\ req[q].op = "createOrder" /\ req[q].pc \notin {"idle", "done"}

\* C27: for a fixed year, the revenue getMonthlyRevenue reports for a month
\* never decreases: no step of createOrder, updateOrderStatus, completeCourse
\* or a cancellation makes it smaller than it was.
C27_RevenueNeverDecreases ==
    [][orders' # orders =>
          \A year \in YearInputs, offset \in UtcOffsets :
              LET before == getMonthlyRevenue(year, offset)
                  after == getMonthlyRevenue(year, offset)'
              IN \A m \in 1..12 : after[m].revenue >= before[m].revenue]_vars

C27_Witness ==
    /\ Len(orders) = 2
    /\ \/ getMonthlyRevenue(BaseYear, 0)[12].revenue > 0
       \/ getMonthlyRevenue(BaseYear + 1, 0)[1].revenue > 0
    /\ \E o \in DOMAIN orders : orders[o].status = "Cancelled"

\* C28: an order detail is marked finished only if the order it belongs to has
\* status Completed; completeCourse never finishes a purchase whose order is
\* still Pending or is Cancelled.
C28_FinishedOnlyIfCompleted ==
    \A d \in DOMAIN orderDetails :
        orderDetails[d].isFinishCourse =>
            /\ orderDetails[d].order \in DOMAIN orders
            /\ orders[orderDetails[d].order].status = "Completed"

\* C29: every course has a creator account that holds a certification with
\* isChecked and isCanTeach both true, and no step turns either flag of a
\* certification from true to false or removes a certification.
C29_CreatorsCertified ==
    /\ [](\A c \in DOMAIN courses :
             /\ courses[c].createdBy \in DOMAIN accounts
             /\ \E i \in DOMAIN certifications :
                   /\ certifications[i].createBy = courses[c].createdBy
                   /\ certifications[i].isChecked
                   /\ certifications[i].isCanTeach)
    /\ [][\A i \in DOMAIN certifications :
             /\ i \in DOMAIN certifications'
             /\ certifications[i].isChecked => certifications'[i].isChecked
             /\ certifications[i].isCanTeach => certifications'[i].isCanTeach]_vars

C29_Witness ==
    /\ \E c \in DOMAIN courses \ DOMAIN SeedCourses : courses[c].createdBy = "a3"
    /\ \E p \in Procs : /\ areq[p].op = "createCourse"
                         /\ areq[p].pc = "done"
                         /\ areq[p].userId = "a3"
                         /\ areq[p].result = 201

\* C30: the status of an account changes only from Inactive to Active, and
\* only in the save of a verifyOtp or verifyTutorOtp call whose otp is the
\* stored one and whose expiration had not passed when it was compared; a
\* verify call answered with 400 leaves every account as it was, and a verify
\* call that finds its account Active is answered with 400.
C30_OnlyVerifyActivates ==
    [][/\ \A a \in DOMAIN accounts :
             /\ a \in DOMAIN accounts'
             /\ accounts'[a].status # accounts[a].status =>
                   /\ accounts[a].status = "Inactive"
                   /\ accounts'[a].status = "Active"
                   /\ \E p \in Procs :
                         /\ areq[p].op \in VerifyOps
                         /\ areq[p].pc = "save"
                         /\ areq'[p].pc = "done"
                         /\ areq'[p].result = 200
                         /\ areq[p].userId = a
                         /\ areq[p].otp = otps[a].otp
                         /\ otps[a].otpExpiration >= areq[p].checkedAt
       /\ \A p \in Procs :
             (/\ areq'[p].op \in VerifyOps
              /\ areq[p].pc # "done"
              /\ areq'[p].pc = "done"
              /\ areq'[p].result # 200) =>
                 /\ accounts' = accounts
                 /\ otps' = otps
       /\ \A p \in Procs :
             (/\ areq[p].op \in VerifyOps
              /\ areq[p].pc = "findAccount"
              /\ areq'[p] # areq[p]
              /\ FindByEmail(areq[p].email) # NoId
              /\ accounts[FindByEmail(areq[p].email)].status = "Active") =>
                 /\ areq'[p].pc = "done"
                 /\ areq'[p].result = 400]_vars

C30_Witness ==
    /\ accounts["a3"].status = "Active"
    /\ otps["a3"] = NullOtp
    /\ clock > 0
    /\ \E p \in Procs : /\ areq[p].op \in VerifyOps
                         /\ areq[p].pc = "done"
                         /\ areq[p].email = "e5"
                         /\ areq[p].result = 400

====
